---- MODULE Spec2Model ----
(***************************************************************************)
(* The learning journal (journal.py): a Pyramid application with a         *)
(* connection-per-request manager (open_connection / close_connection),    *)
(* an entry store (write_entry / read_entries), a login verifier           *)
(* (do_login) and the route handlers add_entry, login and logout.          *)
(*                                                                         *)
(* A request goes through three steps, each one atomic here: the           *)
(* NewRequest subscriber (open_connection), the view, and the finished     *)
(* callback (close_connection).  Requests of several clients overlap.      *)
(* The database engine, the clock and the browser are the environment:     *)
(* a database call may raise, the clock advances, a client sends any       *)
(* request with any parameters.                                            *)
(*                                                                         *)
(* Three specifications run the same actions on different requests:        *)
(* SpecAuth (every route, one request at a time, two clients), SpecStore   *)
(* (adding with every form content and listing, overlapping) and SpecList  *)
(* (adding and listing over a longer run, overlapping).                    *)
(***************************************************************************)
EXTENDS Integers, Sequences, FiniteSets, TLC

VARIABLES settings, cookie, req, store, nextid, clock, openConns, nreq

vars == <<settings, cookie, req, store, nextid, clock, openConns, nreq>>

(* ------------------------------ bounds -------------------------------- *)

\* Requests served in one behaviour of SpecAuth.
MaxAuthRequests == 4

\* Requests served in one behaviour of SpecStore.
MaxStoreRequests == 3

\* Requests served in one behaviour of SpecList.
MaxListRequests == 4

\* Last value of the server clock.
MaxClock == 2

(* ----------------------------- constants ------------------------------ *)

\* title VARCHAR (127) NOT NULL
TitleMaxLen == 127

\* Python's None: the default of request.params.get for an absent key.
\* No submitted value equals it.
None == "<None>"

Clients == {"c1", "c2"}

\* The worker threads of the server: the requests in flight at once.
Slots == {1, 2}

\* os.urandom salts of BCRYPTPasswordManager.encode.
Salts == {3, 5}

\* Submitted form values.  "" is a present but empty field.
Usernames == {None, "", "admin", "guest"}

Passwords == {None, "", "secret", "wrong"}

Title127 == "LLLLLLLLLLLLLLLLLLLLLLLLLLLLLLLLLLLLLLLLLLLLLLLLLLLLLLLLLLLLLLLLLLLLLLLLLLLLLLLLLLLLLLLLLLLLLLLLLLLLLLLLLLLLLLLLLLLLLLLLLLLLLLL"

Title128 == "XXXXXXXXXXXXXXXXXXXXXXXXXXXXXXXXXXXXXXXXXXXXXXXXXXXXXXXXXXXXXXXXXXXXXXXXXXXXXXXXXXXXXXXXXXXXXXXXXXXXXXXXXXXXXXXXXXXXXXXXXXXXXXXX"

Titles == {None, "Day 1", Title127, Title128}

Texts == {None, "Learned X"}

Routes == {"home", "add", "login", "logout"}

(* ------------------------------ settings ------------------------------ *)

\* The characters of the passwords the model submits, as code points.
Chars(pw) ==
    CASE pw = "secret" -> <<115, 101, 99, 114, 101, 116>>
      [] pw = "wrong"  -> <<119, 114, 111, 110, 103>>
      [] OTHER         -> <<>>

RECURSIVE Fold(_, _)
Fold(h, cs) == IF cs = <<>> THEN h ELSE Fold((h * 31 + Head(cs)) % 65521, Tail(cs))

\* crypt_rn(text, settings): the salted digest of a password.
Digest(salt, pw) == Fold(salt, Chars(pw))

\* BCRYPTPasswordManager.encode: "$2a$" + salt + digest.
Encode(pw, salt) == [scheme |-> "$2a$", salt |-> salt, digest |-> Digest(salt, pw)]

\* BCRYPTPasswordManager.check(encoded, password): hash the password with
\* the salt of the stored value and compare.
Check(hashed, pw) ==
    /\ hashed.scheme = "$2a$"
    /\ Encode(pw, hashed.salt) = hashed

\* settings['auth.username'], by default.
AdminUsername == "admin"

\* The password main() hashes into settings['auth.password'], by default.
AdminPassword == "secret"

\* main(): settings['auth.username'] and settings['auth.password'].
Settings ==
    { [username |-> AdminUsername, password |-> Encode(AdminPassword, s)] :
        s \in Salts }

(* ------------------------------ requests ------------------------------ *)

NoParams == [username |-> None, password |-> None, title |-> None, text |-> None]

\* request.params of the requests a browser sends to each route.
ParamsOf(route) ==
    CASE route = "login" ->
            { [NoParams EXCEPT !.username = u, !.password = p] :
                u \in Usernames, p \in Passwords }
      [] route = "add" ->
            { [NoParams EXCEPT !.title = t, !.text = x] : t \in Titles, x \in Texts }
      [] OTHER -> { NoParams }

MethodsOf(route) ==
    CASE route = "login" -> {"GET", "POST"}
      [] route = "add"   -> {"POST"}
      [] OTHER           -> {"GET"}

\* request.params.get(key, default)
Get(params, key, default) == IF params[key] = None THEN default ELSE params[key]

NoResponse ==
    [status |-> 0, location |-> "", headers |-> "none", userid |-> "",
     error |-> "", username |-> "", entries |-> <<>>]

\* A slot that holds no request yet.
Idle ==
    [pc |-> "idle", client |-> "c1", route |-> "home", method |-> "GET",
     params |-> NoParams, principal |-> None, db |-> "none",
     exception |-> None, txn |-> {}, aborted |-> FALSE, t0 |-> 0,
     authenticated |-> "", caught |-> FALSE, response |-> NoResponse,
     commits |-> 0, rollbacks |-> 0, stored |-> 0, raised |-> FALSE,
     delivered |-> FALSE]

Init ==
    /\ settings \in Settings
    /\ cookie = [c \in Clients |-> None]
    /\ req = [r \in Slots |-> Idle]
    /\ store = {}
    /\ nextid = 1
    /\ clock = 0
    /\ openConns = 0
    /\ nreq = 0

\* The server clock read by datetime.datetime.utcnow().
Tick ==
    /\ clock < MaxClock
    /\ clock' = clock + 1
    /\ UNCHANGED <<settings, cookie, req, store, nextid, openConns, nreq>>

\* A slot that takes a new request.
Free(r) == req[r].pc \in {"idle", "done"}

\* The slot the server gives the next request.
NextSlot(r) == Free(r) /\ \A q \in Slots : Free(q) => r <= q

\* open_connection: the NewRequest subscriber.  connect_db succeeds,
\* request.db is set and close_connection is registered.  The request
\* carries the cookie its client holds.
open_connection(r, c, route, method, params) ==
    /\ NextSlot(r)
    /\ req' = [req EXCEPT ![r] =
          [Idle EXCEPT !.pc = "opened", !.client = c, !.route = route,
                       !.method = method, !.params = params,
                       !.principal = cookie[c], !.db = "open", !.t0 = clock]]
    /\ openConns' = openConns + 1
    /\ nreq' = nreq + 1
    /\ UNCHANGED <<settings, cookie, store, nextid, clock>>

\* open_connection when psycopg2.connect raises: request.db is never set,
\* no finished callback is registered and the view does not run.
connect_fails(r, c, route, method, params) ==
    /\ NextSlot(r)
    /\ req' = [req EXCEPT ![r] =
          [Idle EXCEPT !.pc = "done", !.client = c, !.route = route,
                       !.principal = cookie[c],
                       !.exception = "psycopg2.Error",
                       !.response = [NoResponse EXCEPT !.status = 500]]]
    /\ nreq' = nreq + 1
    /\ UNCHANGED <<settings, cookie, store, nextid, clock, openConns>>

(* ----------------------------- entry store ---------------------------- *)

\* The rows a statement of request r sees: the committed rows and the rows
\* of its own transaction.
Visible(r) == store \cup req[r].txn

RECURSIVE Orderings(_)
\* All sequences that hold each row of S once.
Orderings(S) ==
    IF S = {} THEN { <<>> }
    ELSE UNION { { <<x>> \o t : t \in Orderings(S \ {x}) } : x \in S }

\* ORDER BY created, without DESC.
SortedAsc(lst) ==
    \A i \in 1..(Len(lst) - 1) : lst[i].created <= lst[i + 1].created

\* ORDER BY created DESC
SortedDesc(lst) ==
    \A i \in 1..(Len(lst) - 1) : lst[i].created >= lst[i + 1].created

\* SELECT id, title, text, created FROM entries ORDER BY created DESC:
\* every result the statement may return (rows of equal created come in
\* any order).
SELECT_ENTRIES(S) == { lst \in Orderings(S) : SortedDesc(lst) }

\* The column constraints of DB_SCHEMA that INSERT_ENTRY can violate.
ConstraintsOK(title, text) ==
    /\ title # None
    /\ text # None
    /\ Len(title) <= TitleMaxLen

\* write_entry that passes text and title in the wrong order.
write_entry_swapped(r) ==
    [id      |-> nextid,
     title   |-> Get(req[r].params, "text", None),
     text    |-> Get(req[r].params, "title", None),
     created |-> clock]

\* write_entry: the row INSERT_ENTRY adds.
write_entry(r) ==
    [id      |-> nextid,
     title   |-> Get(req[r].params, "title", None),
     text    |-> Get(req[r].params, "text", None),
     created |-> clock]

\* read_entries: the view of route home.  The SELECT may raise
\* psycopg2.Error, which the view does not catch.
read_entries(r) ==
    /\ req[r].pc = "opened"
    /\ req[r].route = "home"
    /\ \E dbok \in BOOLEAN :
         IF dbok
         THEN \E lst \in SELECT_ENTRIES(Visible(r)) :
                req' = [req EXCEPT ![r].pc = "handled",
                          ![r].response = [NoResponse EXCEPT !.status = 200,
                                                             !.entries = lst]]
         ELSE req' = [req EXCEPT ![r].pc = "handled",
                        ![r].aborted = TRUE,
                        ![r].exception = "psycopg2.Error",
                        ![r].response = [NoResponse EXCEPT !.status = 500]]
    /\ UNCHANGED <<settings, cookie, store, nextid, clock, openConns, nreq>>

\* add_entry that redirects whether or not the insert failed.
add_response_always_found(ok) == [NoResponse EXCEPT !.status = 302, !.location = "/"]

\* The response add_entry returns: HTTPFound(route_url('home')) after the
\* insert, HTTPInternalServerError after a psycopg2.Error.
add_response(ok) ==
    IF ok THEN [NoResponse EXCEPT !.status = 302, !.location = "/"]
    ELSE [NoResponse EXCEPT !.status = 500]

\* add_entry: the view of route add.  The route carries no permission and
\* the view does not look at the principal.  A psycopg2.Error of the
\* insert is caught and the class HTTPInternalServerError is returned;
\* the framework either takes the returned value as the response or fails
\* to convert it and records a ValueError for the request.
add_entry(r) ==
    /\ req[r].pc = "opened"
    /\ req[r].route = "add"
    /\ \E dbok \in BOOLEAN :
         LET row == write_entry(r) IN
         IF dbok /\ ConstraintsOK(row.title, row.text)
         THEN /\ req' = [req EXCEPT ![r].pc = "handled",
                           ![r].txn = req[r].txn \cup {row},
                           ![r].response = add_response(TRUE)]
              /\ nextid' = nextid + 1
         ELSE /\ \E converted \in BOOLEAN :
                   req' = [req EXCEPT ![r].pc = "handled",
                             ![r].aborted = TRUE,
                             ![r].caught = TRUE,
                             ![r].exception =
                                 IF converted THEN None ELSE "ValueError",
                             ![r].response = add_response(FALSE)]
              /\ UNCHANGED nextid
    /\ UNCHANGED <<settings, cookie, store, clock, openConns, nreq>>

(* ---------------------------- login verifier -------------------------- *)

\* Python truth of a form value.
Truthy(v) == v # None /\ v # ""

\* do_login without the comparison of the username.
do_login_any_username(params, st) ==
    LET username == Get(params, "username", None)
        password == Get(params, "password", None)
    IN  IF ~(Truthy(username) /\ Truthy(password))
        THEN "ValueError"
        ELSE IF Check(st.password, password) THEN "True" ELSE "False"

\* do_login: "ValueError" when it raises, else "True" or "False".
do_login(params, st) ==
    LET username == Get(params, "username", None)
        password == Get(params, "password", None)
    IN  IF ~(Truthy(username) /\ Truthy(password))
        THEN "ValueError"
        ELSE IF username = st.username
             THEN IF Check(st.password, password) THEN "True" ELSE "False"
             ELSE "False"

\* str(e) of the ValueError of do_login.
RequiredMessage == "both username and password are required"

\* login that tells a wrong username from a wrong password.
login_post_names_field(params, st) ==
    LET username == Get(params, "username", "")
        result   == do_login(params, st)
        error    == IF result = "ValueError" THEN RequiredMessage
                    ELSE IF username # st.username THEN "Unknown user"
                    ELSE "Login Failed"
    IN  IF result = "True"
        THEN [NoResponse EXCEPT !.status = 302, !.location = "/",
                                !.headers = "remember", !.userid = username]
        ELSE [NoResponse EXCEPT !.status = 200, !.error = error,
                                !.username = username]

\* login that calls remember before it looks at the result of do_login.
login_post_remembers_first(params, st) ==
    LET username == Get(params, "username", "")
        result   == do_login(params, st)
        error    == IF result = "ValueError" THEN RequiredMessage
                    ELSE "Login Failed"
    IN  IF result = "True"
        THEN [NoResponse EXCEPT !.status = 302, !.location = "/",
                                !.headers = "remember", !.userid = username]
        ELSE [NoResponse EXCEPT !.status = 200, !.error = error,
                                !.username = username,
                                !.headers = "remember", !.userid = username]

\* The model the login view builds on a POST.
login_post(params, st) ==
    LET username == Get(params, "username", "")
        result   == do_login(params, st)
        error    == IF result = "ValueError" THEN RequiredMessage
                    ELSE "Login Failed"
    IN  IF result = "True"
        THEN [NoResponse EXCEPT !.status = 302, !.location = "/",
                                !.headers = "remember", !.userid = username]
        ELSE [NoResponse EXCEPT !.status = 200, !.error = error,
                                !.username = username]

\* login: the view of route login.
login(r) ==
    /\ req[r].pc = "opened"
    /\ req[r].route = "login"
    /\ req' = [req EXCEPT ![r].pc = "handled",
                 ![r].authenticated =
                     IF req[r].method = "POST"
                     THEN do_login(req[r].params, settings) ELSE "",
                 ![r].response =
                     IF req[r].method = "POST"
                     THEN login_post(req[r].params, settings)
                     ELSE [NoResponse EXCEPT !.status = 200,
                              !.username = Get(req[r].params, "username", "")]]
    /\ UNCHANGED <<settings, cookie, store, nextid, clock, openConns, nreq>>

\* logout: the view of route logout.
logout(r) ==
    /\ req[r].pc = "opened"
    /\ req[r].route = "logout"
    /\ req' = [req EXCEPT ![r].pc = "handled",
                 ![r].response = [NoResponse EXCEPT !.status = 302,
                                     !.location = "/", !.headers = "forget"]]
    /\ UNCHANGED <<settings, cookie, store, nextid, clock, openConns, nreq>>

(* ------------------------- connection manager ------------------------- *)

\* A logout that sends no forget headers.
CookieAfter_never_forgets(old, response) ==
    CASE response.headers = "remember" -> response.userid
      [] OTHER                         -> old

\* The cookie a client holds after a response with these headers.
CookieAfter(old, response) ==
    CASE response.headers = "remember" -> response.userid
      [] response.headers = "forget"   -> None
      [] OTHER                         -> old

\* close_connection that always commits.
TxnCall_always_commit(exception) == "commit"

\* The call close_connection makes on the connection: rollback when
\* request.exception is set, commit otherwise.
TxnCall(exception) == IF exception # None THEN "rollback" ELSE "commit"

\* What a slot keeps of a request that has finished, until the next one.
Finished(q, call, raises, rows, got) ==
    [Idle EXCEPT !.pc = "done", !.client = q.client, !.route = q.route,
                 !.principal = q.principal,
                 !.exception = q.exception, !.caught = q.caught,
                 !.response = [NoResponse EXCEPT !.status = q.response.status],
                 !.rollbacks = IF call = "rollback" THEN 1 ELSE 0,
                 !.commits = IF call = "commit" THEN 1 ELSE 0,
                 !.raised = raises,
                 !.stored = Cardinality(rows),
                 !.delivered = got,
                 !.db = IF raises THEN "open" ELSE "closed"]

\* close_connection: the finished callback.  rollback or commit, then
\* close.  When the commit or rollback raises, close is not reached and the
\* response may be lost.  A commit stores the rows of the transaction unless
\* a statement of it failed.  The client keeps the cookie of a response it
\* received.
close_connection(r) ==
    /\ req[r].pc = "handled"
    /\ req[r].db = "open"
    /\ \E raises \in BOOLEAN :
       \E delivered \in (IF raises THEN BOOLEAN ELSE {TRUE}) :
         LET call      == TxnCall(req[r].exception)
             committed == call = "commit" /\ ~raises /\ ~req[r].aborted
             rows      == IF committed THEN req[r].txn ELSE {}
             got       == delivered /\ req[r].exception = None
         IN  /\ req' = [req EXCEPT ![r] = Finished(req[r], call, raises, rows, got)]
             /\ store' = store \cup rows
             /\ openConns' = IF raises THEN openConns ELSE openConns - 1
             /\ cookie' = IF got
                          THEN [cookie EXCEPT ![req[r].client] =
                                  CookieAfter(cookie[req[r].client], req[r].response)]
                          ELSE cookie
    /\ UNCHANGED <<settings, nextid, clock, nreq>>

\* The requests of the login and logout scenarios: every route, the add
\* form filled in well.
AuthRequests ==
    { k \in [route : Routes, method : {"GET", "POST"},
             params : UNION { ParamsOf(x) : x \in Routes }] :
        /\ k.method \in MethodsOf(k.route)
        /\ k.params \in ParamsOf(k.route)
        /\ k.method = "GET" => k.params = NoParams
        /\ k.route = "add" => k.params.title = "Day 1" /\ k.params.text # None }

\* The requests of the entry store scenarios: listing, and adding with
\* every title; the text is left out of the "Day 1" form only.
StoreRequests ==
    { k \in [route : {"home", "add"}, method : {"GET", "POST"},
             params : ParamsOf("home") \cup ParamsOf("add")] :
        /\ k.method \in MethodsOf(k.route)
        /\ k.params \in ParamsOf(k.route)
        /\ k.params.text = None /\ k.route = "add" => k.params.title = "Day 1" }

\* The clients send one request at a time.
NextAuth ==
    \/ /\ nreq < MaxAuthRequests
       /\ \A q \in Slots : Free(q)
       /\ \E r \in Slots, c \in Clients, k \in AuthRequests :
            \/ open_connection(r, c, k.route, k.method, k.params)
            \/ connect_fails(r, c, k.route, k.method, k.params)
    \/ \E r \in Slots :
         \/ read_entries(r)
         \/ add_entry(r)
         \/ login(r)
         \/ logout(r)
         \/ close_connection(r)

\* Requests overlap and the clock advances between any two steps.
NextStore ==
    \/ Tick
    \/ /\ nreq < MaxStoreRequests
       /\ \E r \in Slots, k \in StoreRequests :
            \/ open_connection(r, "c1", k.route, k.method, k.params)
            \/ connect_fails(r, "c1", k.route, k.method, k.params)
    \/ \E r \in Slots :
         \/ read_entries(r)
         \/ add_entry(r)
         \/ close_connection(r)

\* The requests of the listing scenarios: listing, and adding one more
\* entry of the day.
ListRequests ==
    { k \in StoreRequests :
        k.route = "add" => k.params.title = "Day 1" /\ k.params.text # None }

\* Requests overlap and the clock advances between any two steps.
NextList ==
    \/ Tick
    \/ /\ nreq < MaxListRequests
       /\ \E r \in Slots, k \in ListRequests :
            \/ open_connection(r, "c1", k.route, k.method, k.params)
            \/ connect_fails(r, "c1", k.route, k.method, k.params)
    \/ \E r \in Slots :
         \/ read_entries(r)
         \/ add_entry(r)
         \/ close_connection(r)

\* The store scenarios never read the credential: one configuration.
InitStore == Init /\ settings.password.salt = 3

(* ------------------------------- claims ------------------------------- *)

\* A slot whose view has run on a POST to /login.
LoginPosted(r) ==
    /\ req[r].pc = "handled"
    /\ req[r].route = "login"
    /\ req[r].method = "POST"

\* A submitted form value that is present and not empty.
Filled(v) == v \notin {None, ""}

\* C7: for a non-empty username and password the login verifier returns
\* true exactly when the username is the configured admin username and the
\* password is the one whose hash is configured; a wrong password, and a
\* wrong username with any password, give false.
C7_VerifierExact ==
    \A r \in Slots :
        LoginPosted(r) /\ Filled(req[r].params.username)
                       /\ Filled(req[r].params.password)
        => /\ req[r].authenticated \in {"True", "False"}
           /\ req[r].authenticated = "True"
                <=> /\ req[r].params.username = "admin"
                    /\ req[r].params.password = "secret"

\* C7 happens: the verifier has accepted the admin's password against a
\* hash made with the second salt.
C7_Witness ==
    \E r \in Slots :
        /\ LoginPosted(r)
        /\ req[r].params.username = "admin"
        /\ req[r].params.password = "secret"
        /\ req[r].authenticated = "True"
        /\ settings.password.salt = 5

\* C2 as claimed: every failed POST /login shows the error "Login Failed".
C2_GenericError ==
    \A r \in Slots :
        LoginPosted(r) /\ req[r].response.headers # "remember"
        => req[r].response.error = "Login Failed"

\* C2 as amended: a failed POST /login shows "Login Failed" when both
\* fields are filled in, whichever of them is wrong, and "both username and
\* password are required" when either is missing or empty, whichever it is.
C2_ErrorNamesNoField ==
    \A r \in Slots :
        LoginPosted(r) /\ req[r].response.headers # "remember"
        => /\ req[r].response.status = 200
           /\ req[r].response.error =
                (IF Filled(req[r].params.username)
                    /\ Filled(req[r].params.password)
                 THEN "Login Failed"
                 ELSE "both username and password are required")

\* C2 happens: a POST /login with an empty username and the admin's
\* password has failed.
C2_Witness ==
    \E r \in Slots :
        /\ LoginPosted(r)
        /\ req[r].params.username = ""
        /\ req[r].params.password = "secret"
        /\ req[r].response.headers = "none"
        /\ req[r].response.error # "Login Failed"

\* The step in which close_connection ends the request of slot r.
Closing(r) == req[r].pc = "handled" /\ req'[r].pc = "done"

\* The step in which slot r takes a new request and its connection.
Opening(r) == req[r].pc \in {"idle", "done"} /\ req'[r].pc = "opened"

\* What POST /login answers in slot r.
C6_Response(r) ==
    LET q == req[r] IN
    /\ q.response.headers = "remember" <=> q.authenticated = "True"
    /\ q.authenticated = "True"
         => /\ q.response.status = 302
            /\ q.response.location = "/"
            /\ q.response.userid = "admin"
    /\ q.authenticated # "True"
         => /\ q.response.status = 200
            /\ q.response.headers = "none"
            /\ q.response.userid = ""
            /\ q.response.username =
                 (IF q.params.username = None THEN "" ELSE q.params.username)
            /\ Filled(q.params.password)
                 => \A f \in {"error", "username", "userid", "location"} :
                       q.response[f] # q.params.password

\* C6: POST /login sets the auth cookie if and only if the verifier
\* returned true; then it redirects to / with a cookie for the admin
\* username; otherwise it renders the login page with the submitted username
\* and without the password, sets no cookie, and the client's cookie is the
\* same after the request as before.
C6_CookieIffVerified ==
    [][ \A r \in Slots :
          /\ LoginPosted(r)' => C6_Response(r)'
          /\ Closing(r) /\ LoginPosted(r) /\ req[r].authenticated # "True"
               => cookie' = cookie ]_vars

\* C6 happens: a client holding the admin cookie has posted wrong
\* credentials, and the request has finished.
C6_Witness ==
    \E r \in Slots :
        /\ req[r].pc = "done"
        /\ req[r].route = "login"
        /\ req[r].principal = "admin"
        /\ req[r].response.status = 200
        /\ req[r].delivered
        /\ cookie[req[r].client] = "admin"

\* A login or a logout of slot r that the client receives in this step.
LoggedIn(r) ==
    /\ Closing(r) /\ req'[r].delivered
    /\ LoginPosted(r) /\ req[r].authenticated = "True"

LoggedOut(r) ==
    /\ Closing(r) /\ req'[r].delivered
    /\ req[r].route = "logout"

\* C5: a login the client receives makes the admin username its principal
\* and a logout it receives makes the principal absent; both redirect to /;
\* nothing else changes the principal, and every later request carries the
\* principal the client then has.
C5_LoginLogout ==
    [][ /\ \A r \in Slots :
             /\ LoggedIn(r)
                  => /\ cookie'[req[r].client] = "admin"
                     /\ req[r].response.status = 302
                     /\ req[r].response.location = "/"
             /\ LoggedOut(r)
                  => /\ cookie'[req[r].client] = None
                     /\ req[r].response.status = 302
                     /\ req[r].response.location = "/"
             /\ Opening(r) => req'[r].principal = cookie[req'[r].client]
        /\ \A c \in Clients :
             cookie'[c] # cookie[c]
               => \E r \in Slots :
                     req[r].client = c /\ (LoggedIn(r) \/ LoggedOut(r)) ]_vars

\* C5 happens: a client that was the admin has received its logout and is
\* nobody again.
C5_Witness ==
    \E r \in Slots :
        /\ req[r].pc = "done"
        /\ req[r].route = "logout"
        /\ req[r].principal = "admin"
        /\ req[r].delivered
        /\ cookie[req[r].client] = None

\* A slot whose request has finished after its view ran.
Done(r) == req[r].pc = "done" /\ req[r].db # "none"

\* C1 as claimed: a POST /add that carries no authenticated principal
\* stores no entry.
C1_AddNeedsPrincipal ==
    \A r \in Slots :
        Done(r) /\ req[r].route = "add" /\ req[r].principal = None
        => req[r].stored = 0

C4_CommitXorRollback ==
    \A r \in Slots :
        /\ req[r].pc \in {"opened", "handled"}
             => req[r].commits = 0 /\ req[r].rollbacks = 0
        /\ Done(r)
             => /\ req[r].commits + req[r].rollbacks = 1
                /\ req[r].rollbacks = 1 <=> req[r].exception # None
                /\ req[r].commits = 1 <=> req[r].exception = None

\* C4 happens: a response with an error status, returned as an ordinary
\* response, has been committed, and beside it a request with an unhandled
\* error has been rolled back.
C4_Witness ==
    \E r, q \in Slots :
        /\ Done(r) /\ req[r].response.status = 500
        /\ req[r].exception = None /\ req[r].commits = 1
        /\ Done(q) /\ req[q].exception # None /\ req[q].rollbacks = 1

\* The requests in flight: a connection acquired, not yet finished.
InFlight == { r \in Slots : req[r].pc \in {"opened", "handled"} }

\* C10 as claimed: the connection of a request is closed when the request
\* has finished, on every path, and the number of open connections is the
\* number of requests in flight.
C10_ConnectionReleased ==
    /\ \A r \in Slots : Done(r) => req[r].db = "closed"
    /\ openConns = Cardinality(InFlight)

\* The step in which read_entries answers the request of slot r.
Listing(r) ==
    /\ req[r].pc = "opened" /\ req[r].route = "home"
    /\ req'[r].pc = "handled" /\ req'[r].response.status = 200

\* A title and a text the schema accepts, both filled in.
ValidEntry(params) ==
    /\ Filled(params.title)
    /\ Filled(params.text)
    /\ Len(params.title) <= 127

\* The step in which a POST /add of a valid entry finishes without error.
Inserted(r) ==
    /\ Closing(r)
    /\ req[r].route = "add"
    /\ ValidEntry(req[r].params)
    /\ req[r].response.status = 302
    /\ req[r].exception = None
    /\ ~req'[r].raised

\* C8: when a POST /add of a valid title and text finishes without error,
\* the store holds a new entry with exactly that title and text and a created
\* time not before the start of the request; no entry ever leaves the store;
\* and every listing holds every entry stored before it.
C8_InsertThenList ==
    [][ /\ \A r \in Slots :
             /\ Inserted(r)
                  => \E e \in store' \ store :
                        /\ e.title = req[r].params.title
                        /\ e.text = req[r].params.text
                        /\ e.created >= req[r].t0
             /\ Listing(r)
                  => \A e \in store :
                        \E i \in 1..Len(req'[r].response.entries) :
                           req'[r].response.entries[i] = e
        /\ store \subseteq store' ]_vars

\* C8 happens: a listing shows an entry with a title of 127 characters that
\* was added after the clock had advanced.
C8_Witness ==
    \E r \in Slots :
        /\ req[r].pc = "handled" /\ req[r].route = "home"
        /\ \E i \in 1..Len(req[r].response.entries) :
              /\ Len(req[r].response.entries[i].title) = 127
              /\ req[r].response.entries[i].text = "Learned X"
              /\ req[r].response.entries[i].created >= 1

\* C9: a listing holds every committed entry exactly once, and of any two
\* adjacent entries the first was created no earlier than the second.
C9_NewestFirst ==
    [][ \A r \in Slots :
          Listing(r)
          => LET lst == req'[r].response.entries IN
             /\ Len(lst) = Cardinality(store)
             /\ { lst[i] : i \in 1..Len(lst) } = store
             /\ \A i \in 1..(Len(lst) - 1) :
                   lst[i].created >= lst[i + 1].created ]_vars

\* C9 happens: a listing of three entries created at three times, the
\* newest first.
C9_Witness ==
    \E r \in Slots :
        /\ req[r].pc = "handled" /\ req[r].route = "home"
        /\ LET lst == req[r].response.entries IN
           /\ Len(lst) = 3
           /\ lst[1].created > lst[2].created
           /\ lst[2].created > lst[3].created

SpecAuth == Init /\ [][NextAuth]_vars

SpecList == InitStore /\ [][NextList]_vars

SpecStore == InitStore /\ [][NextStore]_vars
====
